---- MODULE Spec2Model ----
(***************************************************************************)
(* The session engine of the CWMP CPE simulator (simulator.js, kept as     *)
(* src/unnamed/part_000), the Download/Reboot handlers and the download    *)
(* worker of src/methods.js.                                               *)
(*                                                                         *)
(* Node runs every callback to completion, so one action is one callback:  *)
(* a timer callback, the 'end' of an ACS response, an event of a download  *)
(* GET, or a request on the connection-request listener.                   *)
(*                                                                         *)
(* Time is counted in ticks.  The delays keep the order they have in the   *)
(* source (0 < transferCompleteDelayMs < timeout < timeout + 10000), not   *)
(* their scale.  A timer that is due fires before time advances; how long  *)
(* the ACS or a file server takes to answer is not constrained.            *)
(***************************************************************************)
EXTENDS Integers, Sequences, FiniteSets, Bags, TLC

\* --------------------------------------------------------------- bounds
MaxDownloads == 1      \* Download RPCs that start a transfer in one run
MaxReboots == 1        \* Reboot RPCs in one run
MaxBurstDownloads == 3 \* Download RPCs that start a transfer in one session of BurstSpec
MaxChallenges == 2     \* Digest 401 responses of the ACS in one run of DigestSpec
MaxNonceCount == 10    \* requests sent under one digest challenge
MaxInstances == 2      \* the highest instance number AddObject creates

\* ------------------------------------------------------ program constants
transferCompleteDelayMs == 1   \* methods.js:29 (500 ms)
timeout == 2                   \* simulator.js:25, the stop window
rebootExtraDelay == 2          \* methods.js:658, the 10000 added to the window
informInterval == 3            \* simulator.js:274, PeriodicInformInterval
maxAttemptsRaised == 5 + 1      \* a cap that lets a sixth retry through
maxAttempts == 5               \* methods.js:487

NULL == "null"
HANDLE == "timeout"

NoTransfer == [commandKey |-> -1, faultCode |-> "", faultString |-> "", of |-> 0]

VARIABLES
  started,                 \* start() has run
  nextInformTimeout,       \* NULL, or HANDLE: the timer in timers with ref = TRUE
  pendingInform,
  acceptConnections,
  timers,                  \* bag of the armed timers [kind, rem, ref]
  requests,                \* POSTs issued by sendRequest and not answered, oldest first
  pendingReboot,           \* device._pendingReboot
  firmwareUpgrade,         \* device._firmwareUpgrade
  transferCompleteSession, \* device._transferCompleteSession
  downloadInProgress,      \* device._downloadInProgress
  activeDownloadRequest,   \* device._activeDownloadRequest: 0, or the download whose GET it is
  pendingTransfers,        \* methods.js pendingTransfers
  workers,                 \* per download: its GET and what became of it
  nReboots,                \* Reboot RPCs handled
  softwareVersion,         \* per data-model root, the value of DeviceInfo.SoftwareVersion
  digestParams,            \* device._digestParams: NoChallenge (null), or the parsed challenge
  nonceCount,              \* device._nonceCount
  credentials,             \* device._username and device._password are both non-empty
  exited,                  \* the process has ended
  parameters,              \* the keys of the parameter map under ObjectPath, with their entries
  history                  \* what was observed: per download, records queued and TransferCompletes sent

vars == <<started, nextInformTimeout, pendingInform, acceptConnections, timers,
          requests, pendingReboot, firmwareUpgrade, transferCompleteSession,
          downloadInProgress, activeDownloadRequest, pendingTransfers, workers,
          nReboots, softwareVersion, digestParams, nonceCount, credentials,
          exited, parameters, history>>

Downloads == DOMAIN workers

device == <<pendingReboot, firmwareUpgrade, transferCompleteSession,
            downloadInProgress, activeDownloadRequest>>

\* ---------------------------------------------------------------- timers
Timer(kind, delay, ref) == [kind |-> kind, rem |-> delay, ref |-> ref]

\* setTimeout
setTimeout(b, kind, delay) == b (+) SetToBag({Timer(kind, delay, FALSE)})

Forget(t) == [t EXCEPT !.ref = FALSE]

\* the timer a handle was overwritten or nulled for stays armed
Unref(b) == BagOfAll(Forget, b)

\* clearTimeout(nextInformTimeout)
clearTimeout(b) == LET held == {t \in BagToSet(b) : t.ref}
                   IN  IF held = {} THEN b ELSE b (-) SetToBag(held)

\* nextInformTimeout = setTimeout(...)
setInformTimeout(b, kind, delay) == Unref(b) (+) SetToBag({Timer(kind, delay, TRUE)})

Due(kind) == {t \in BagToSet(timers) : t.kind = kind /\ t.rem = 0}

Expire(t) == timers (-) SetToBag({t})

Elapse(t) == [t EXCEPT !.rem = @ - 1]

\* --------------------------------------------------------------- inform
CancelKey == 0   \* stands for the CommandKey "cancelled_by_reboot"

\* methods.getPendingTransfers
getPendingTransfers == IF pendingTransfers = <<>> THEN NoTransfer ELSE Head(pendingTransfers)

shifted == IF pendingTransfers = <<>> THEN <<>> ELSE Tail(pendingTransfers)

\* queueTransferComplete; of: the download the record reports on (0: none)
queueTransferComplete(q, commandKey, faultCode, faultString, of) ==
  Append(q, [commandKey |-> commandKey, faultCode |-> faultCode,
             faultString |-> faultString, of |-> of])

\* EventCode of methods.inform: ev || "2 PERIODIC"
EventCode(event) == IF event = NULL THEN "2 PERIODIC" ELSE event

\* a FaultStruct test without the exemption of FaultCode "0"
hasFaultStructOnZero(rec) == rec.faultCode # ""

\* the test that adds a FaultStruct to a TransferComplete
hasFaultStruct(rec) == rec.faultCode # "" /\ rec.faultCode # "0"

IsSuccess(rec) == rec # NoTransfer /\ ~hasFaultStruct(rec)

\* history: a record was queued for download d
Queued(h, d) == IF d = 0 THEN h ELSE [h EXCEPT ![d].queued = @ + 1]

\* history: a TransferComplete carrying rec was handed to sendRequest
Sent(h, rec) ==
  LET h1 == IF rec.of \in DOMAIN h THEN [h EXCEPT ![rec.of].sent = @ + 1] ELSE h
  IN  IF IsSuccess(rec) /\ rec.commandKey \in DOMAIN h
      THEN [h1 EXCEPT ![rec.commandKey].sentOk = @ + 1]
      ELSE h1

\* ------------------------------------------------------ parameter map
\* the data-model roots INFORM_PARAMS lists DeviceInfo.SoftwareVersion under
Roots == {"Device", "InternetGatewayDevice"}

Absent == "-"
Shipped == "1.0"
Upgraded == "2.0.0-upgraded"

\* the data models start() may be given: each root has the parameter or not
DataModels == [Roots -> {Absent, Shipped}]

\* updateParameter(parameter, value)
updateParameter(params, root, value) ==
  IF params[root] # Absent THEN [params EXCEPT ![root] = value] ELSE params

\* the SoftwareVersion entries of the ParameterList methods.inform builds
ParameterList(params) ==
  [r \in {x \in Roots : params[x] # Absent} |-> params[r]]

NoParameters == [r \in {} |-> Absent]

\* the request id startSession draws for its Inform, which the InformResponse
\* echoes; the ids the ACS gives its own requests
OwnId == 0
Ids == {1, 2}

\* the methods handleMethod finds in the exports of methods.js and that answer
\* through their callback
Methods == {"GetParameterNames", "GetParameterValues", "SetParameterValues",
            "AddObject", "DeleteObject", "Download", "Reboot", "FactoryReset"}

\* the Authorization header of a POST: its scheme and the nc field it shows
NoAuthorization == [scheme |-> "", nc |-> <<>>]
Basic == [scheme |-> "Basic", nc |-> <<>>]

\* device._digestParams before any challenge
NoChallenge == [nonce |-> 0, qop |-> FALSE]

Digits == <<"0", "1", "2", "3", "4", "5", "6", "7", "8", "9",
            "a", "b", "c", "d", "e", "f">>

\* Number.prototype.toString(radix), as a sequence of characters
RECURSIVE toString(_, _)
toString(n, radix) ==
  IF n < radix THEN <<Digits[n + 1]>>
  ELSE Append(toString(n \div radix, radix), Digits[(n % radix) + 1])

\* String(n)
String(n) == toString(n, 10)

\* String.prototype.padStart
padStart(str, targetLength, padString) ==
  IF Len(str) >= targetLength THEN str
  ELSE [i \in 1..(targetLength - Len(str)) |-> padString] \o str

\* generateDigestAuth: the header shows nc only for a challenge with qop
generateDigestAuth(params, nc) ==
  LET ncStr == padStart(String(nc), 8, "0") IN
  [scheme |-> "Digest", nc |-> IF params.qop THEN ncStr ELSE <<>>]

\* ------------------------------------------------------ parameter map
\* the characters of the keys, in the order of their UTF-16 code units
Chars == <<".", "1", "2", "3", "4", "P", "a", "b">>

CodeUnit(c) == CHOOSE k \in DOMAIN Chars : Chars[k] = c

\* a < b as Array.prototype.sort without comparator orders strings
Before(a, b) ==
  \/ Len(a) < Len(b) /\ SubSeq(b, 1, Len(a)) = a
  \/ \E k \in 1..Len(a) :
       /\ k <= Len(b)
       /\ SubSeq(a, 1, k - 1) = SubSeq(b, 1, k - 1)
       /\ CodeUnit(a[k]) < CodeUnit(b[k])

\* String.prototype.startsWith
startsWith(str, searchString) ==
  Len(str) >= Len(searchString) /\ SubSeq(str, 1, Len(searchString)) = searchString

\* String.prototype.indexOf(searchValue, fromIndex), positions counted from 0
indexOf(str, searchValue, fromIndex) ==
  LET found == {k \in fromIndex..(Len(str) - 1) : str[k + 1] = searchValue}
  IN  IF found = {} THEN -1 ELSE CHOOSE k \in found : \A m \in found : k <= m

\* String.prototype.slice(beginIndex): a negative index counts from the end
slice(str, beginIndex) ==
  LET from == IF beginIndex < 0
              THEN (IF Len(str) + beginIndex < 0 THEN 0 ELSE Len(str) + beginIndex)
              ELSE beginIndex
  IN  SubSeq(str, from + 1, Len(str))

\* the object path the ACS adds instances to, and the keys a data model may
\* hold under it
ObjectPath == <<"P", ".">>
TemplateKeys ==
  {<<"P", ".">>, <<"P", ".", "a">>, <<"P", ".", "1", ".">>, <<"P", ".", "1", ".", "a">>,
   <<"P", ".", "1", ".", "b">>, <<"P", ".", "2", ".", "a">>}

\* an entry of the map: [writable, value, type]
Entry(writable, value, type) == [writable |-> writable, value |-> value, type |-> type]
Entries == {Entry(TRUE, "v", "xsd:string"), Entry(FALSE, "7", "xsd:unsignedInt")}

\* the entry AddObject gives the instance itself: [true]
ObjectNode == Entry(TRUE, "undefined", "undefined")

NoObjects == [k \in {} |-> ObjectNode]

\* the data models
ParameterMaps == UNION {[keys -> Entries] : keys \in SUBSET TemplateKeys}

\* defaultValues[type] || ""
defaultValues(type) ==
  IF type = "xsd:boolean" THEN "false"
  ELSE IF type \in {"xsd:int", "xsd:unsignedInt"} THEN "0"
  ELSE IF type = "xsd:dateTime" THEN "0001-01-01T00:00:00Z"
  ELSE ""

\* getSortedPaths, as a set; no key of the map starts with "_" or lies under
\* an ignored root
getSortedPaths(dev) == DOMAIN dev

\* AddObject: the instance number its while loop ends with
instanceNumber(dev, objectName) ==
  CHOOSE i \in 1..(Cardinality(DOMAIN dev) + 1) :
    /\ objectName \o String(i) \o <<".">> \notin DOMAIN dev
    /\ \A j \in 1..(i - 1) : objectName \o String(j) \o <<".">> \in DOMAIN dev

\* AddObject: the parameter map it leaves
AddObjectMap(dev, objectName) ==
  LET i == instanceNumber(dev, objectName)
      node == objectName \o String(i) \o <<".">>
      withNode == [k \in DOMAIN dev \cup {node} |-> IF k = node THEN ObjectNode ELSE dev[k]]
      sources == {q \in getSortedPaths(withNode) :
                    startsWith(q, objectName) /\ Len(q) > Len(objectName)}
      n(q) == objectName \o String(i) \o slice(q, indexOf(q, ".", Len(objectName)))
      created == {n(q) : q \in sources} \ DOMAIN withNode
      first(k) == CHOOSE q \in sources :
                    n(q) = k /\ \A r \in sources : n(r) = k /\ r # q => Before(q, r)
  IN  [k \in DOMAIN withNode \cup created |->
         IF k \in DOMAIN withNode THEN withNode[k]
         ELSE Entry(withNode[first(k)].writable, defaultValues(withNode[first(k)].type),
                    withNode[first(k)].type)]

\* DeleteObject: the parameter map it leaves
DeleteObjectMap(dev, objectName) ==
  [k \in {q \in DOMAIN dev : ~startsWith(q, objectName)} |-> dev[k]]

\* module.exports of methods.js, where handleMethod looks up the local name
\* of the element it was sent
Exports == Methods \cup {"inform", "getPendingTransfers"}

\* a POST handed to sendRequest: what its callback does (cont), the session
\* entry and event while it is the session's Inform, the transfer record its
\* body carries, of the session it belongs to the downloads that succeeded
\* during it and those whose success it reported, the body element and the
\* request id of its envelope
Post(cont, src, event, tc, during, sentFor, body, id, version) ==
  [cont |-> cont, src |-> src, event |-> event, tc |-> tc,
   during |-> during, sentFor |-> sentFor, body |-> body, id |-> id,
   version |-> version, nonce |-> 0, nc |-> 0, authorization |-> NoAuthorization]

Reported(rec) == IF IsSuccess(rec) THEN {rec.commandKey} ELSE {}

\* the next POST of the session whose request req was answered: its body in
\* the envelope createSoapDocument(id, body) makes
Reply(req, cont, tc, body, id) ==
  Post(cont, "-", "-", tc, req.during, req.sentFor \cup Reported(tc), body, id,
       NoParameters)

\* getAuthorizationHeader(device, "POST", path) as sendRequest calls it, with
\* the challenge and the nonce count the device holds: a header only with
\* credentials; with a challenge cached the count is incremented first
getAuthorizationHeader(post, params, count) ==
  IF ~credentials THEN post
  ELSE IF params # NoChallenge
       THEN [post EXCEPT !.nonce = params.nonce, !.nc = count + 1,
                         !.authorization = generateDigestAuth(params, count + 1)]
       ELSE [post EXCEPT !.authorization = Basic]

\* device._nonceCount after that call
Counted(params, count) ==
  IF credentials /\ params # NoChallenge THEN count + 1 ELSE count

\* sendRequest(xml, callback); reqs: the requests still unanswered
sendRequest(reqs, post) ==
  /\ Counted(digestParams, nonceCount) <= MaxNonceCount
  /\ requests' = Append(reqs, getAuthorizationHeader(post, digestParams, nonceCount))
  /\ nonceCount' = Counted(digestParams, nonceCount)

\* startSession(event), with the Inform of methods.inform; reqs, tmrs, params:
\* the requests, timers and parameter values the calling callback leaves
startSession(src, event, reqs, tmrs, params) ==
  LET rec == getPendingTransfers IN
  /\ nextInformTimeout' = NULL
  /\ pendingInform' = FALSE
  /\ timers' = Unref(tmrs)
  /\ pendingTransfers' = shifted
  /\ transferCompleteSession' = IF rec # NoTransfer THEN TRUE ELSE transferCompleteSession
  /\ sendRequest(reqs, Post("cpeRequest", src, EventCode(event), rec,
                                   {}, Reported(rec), "Inform", OwnId,
                                   ParameterList(params)))
  /\ history' = [d \in Downloads |->
                   [Sent(history, rec)[d] EXCEPT
                      !.rebooted = @ \/ (src = "bootFw" /\ history[d].sentOk > 0)]]

\* the module state at load, but for the data model; n: the Download RPCs
\* that will start a transfer
Loaded(n) ==
  /\ started = FALSE
  /\ nextInformTimeout = NULL
  /\ pendingInform = FALSE
  /\ acceptConnections = TRUE
  /\ timers = EmptyBag
  /\ requests = <<>>
  /\ pendingReboot = FALSE
  /\ firmwareUpgrade = FALSE
  /\ transferCompleteSession = FALSE
  /\ downloadInProgress = FALSE
  /\ activeDownloadRequest = 0
  /\ pendingTransfers = <<>>
  /\ workers = [d \in 1..n |->
                  [state |-> "none", firmware |-> FALSE, attempts |-> 0]]
  /\ nReboots = 0
  /\ digestParams = NoChallenge
  /\ nonceCount = 0
  /\ exited = FALSE
  /\ history = [d \in 1..n |->
                  [queued |-> 0, sent |-> 0, sentOk |-> 0, rebooted |-> FALSE]]

\* a data model that has the parameter under both roots
Init ==
  /\ parameters = NoObjects
  /\ Loaded(MaxDownloads)
  /\ softwareVersion = [r \in Roots |-> Shipped]
  /\ credentials = TRUE

\* any data model
AnyModelInit ==
  /\ parameters = NoObjects
  /\ Loaded(MaxDownloads)
  /\ softwareVersion \in DataModels
  /\ credentials = TRUE

\* start(): the listener is up, the first session begins
start ==
  /\ ~exited
  /\ ~started
  /\ started' = TRUE
  /\ startSession("start", "1 BOOT", requests, timers, softwareVersion)
  /\ UNCHANGED <<acceptConnections, pendingReboot, firmwareUpgrade, downloadInProgress,
                 activeDownloadRequest, workers, nReboots, softwareVersion>>
  /\ UNCHANGED <<digestParams, credentials, exited, parameters>>

\* -------------------------------------------------------- session engine
head == Head(requests)
rest == Tail(requests)

Awaits(cont) == started /\ requests # <<>> /\ head.cont = cont

\* stopSession, when the caller arms its continuation with the same delay in
\* the same turn: Node runs the two callbacks back to back, so they are one timer
\* (kind "bootFw" or "boot") whose callback first restores acceptConnections
stopThenBoot(kind) ==
  /\ acceptConnections' = FALSE
  /\ timers' = setTimeout(timers, kind, timeout)

\* handleMethod(null): the session closes
Close ==
  /\ requests' = rest
  /\ IF pendingReboot /\ firmwareUpgrade /\ transferCompleteSession
     THEN /\ pendingReboot' = FALSE
          /\ firmwareUpgrade' = FALSE
          /\ transferCompleteSession' = FALSE
          /\ stopThenBoot("bootFw")
          /\ UNCHANGED <<nextInformTimeout>>
     ELSE /\ transferCompleteSession' = FALSE
          /\ IF pendingReboot
             THEN /\ pendingReboot' = FALSE
                  /\ stopThenBoot("boot")
                  /\ UNCHANGED <<nextInformTimeout, firmwareUpgrade>>
             ELSE /\ nextInformTimeout' = HANDLE
                  /\ timers' = IF pendingInform
                                 THEN setInformTimeout(timers, "pending", 0)
                                 ELSE setInformTimeout(timers, "periodic", informInterval)
                  /\ UNCHANGED <<pendingReboot, firmwareUpgrade, acceptConnections>>
  /\ UNCHANGED <<started, pendingInform, downloadInProgress, activeDownloadRequest,
                 pendingTransfers, workers, nReboots, softwareVersion, history>>

\* cpeRequest(null): the ACS answers the Inform with an empty body
InformAnsweredEmpty ==
  /\ ~exited
  /\ Awaits("cpeRequest")
  /\ IF ~acceptConnections
     THEN /\ requests' = rest
          /\ UNCHANGED <<started, nextInformTimeout, pendingInform, acceptConnections,
                         timers, device, pendingTransfers, workers, nReboots, softwareVersion, history>>
     ELSE Close
  /\ UNCHANGED <<digestParams, nonceCount, credentials, exited, parameters>>

\* cpeRequest(xml): the ACS answers the Inform with an envelope
InformAnswered ==
  /\ ~exited
  /\ Awaits("cpeRequest")
  /\ LET rec == getPendingTransfers IN
     /\ IF rec # NoTransfer
        THEN /\ transferCompleteSession' = TRUE
             /\ sendRequest(rest, Reply(head, "handleMethod", rec,
                                                "TransferComplete", head.id))
        ELSE /\ UNCHANGED transferCompleteSession
             /\ IF ~acceptConnections
                THEN sendRequest(rest, Reply(head, "destroy", NoTransfer,
                                                     "Fault 9002", head.id))
                ELSE sendRequest(rest, Reply(head, "handleMethod", NoTransfer,
                                                     "", OwnId))
     /\ pendingTransfers' = shifted
     /\ history' = Sent(history, rec)
  /\ UNCHANGED <<started, nextInformTimeout, pendingInform, acceptConnections, timers,
                 pendingReboot, firmwareUpgrade, downloadInProgress,
                 activeDownloadRequest, workers, nReboots, softwareVersion>>
  /\ UNCHANGED <<digestParams, credentials, exited, parameters>>

\* the callback of the 9002 fault: httpAgent.destroy(), the session is over
FaultAnswered ==
  /\ ~exited
  /\ Awaits("destroy")
  /\ requests' = rest
  /\ UNCHANGED <<started, nextInformTimeout, pendingInform, acceptConnections, timers,
                 device, pendingTransfers, workers, nReboots, softwareVersion, history>>
  /\ UNCHANGED <<digestParams, nonceCount, credentials, exited, parameters>>

\* handleMethod(null)
AcsEmpty ==
  /\ ~exited
  /\ Awaits("handleMethod")
  /\ Close
  /\ UNCHANGED <<digestParams, nonceCount, credentials, exited, parameters>>

\* handleMethod(xml) for a request element whose name is no property of the
\* exports of methods.js
AcsUnknownMethod(id) ==
  /\ ~exited
  /\ Awaits("handleMethod")
  /\ sendRequest(rest, Reply(head, "handleMethod", NoTransfer, "Fault 9000", id))
  /\ UNCHANGED <<started, nextInformTimeout, pendingInform, acceptConnections, timers,
                 device, pendingTransfers, workers, nReboots, softwareVersion, history>>
  /\ UNCHANGED <<digestParams, credentials, exited, parameters>>

\* handleMethod(xml) for the TransferCompleteResponse with which the ACS
\* answers the TransferComplete of cpeRequest: it is looked up in the exports
\* like a request, under the id the ACS echoes
TransferCompleteResponse ==
  /\ ~exited
  /\ Awaits("handleMethod")
  /\ head.body = "TransferComplete"
  /\ sendRequest(rest, Reply(head, "handleMethod", NoTransfer,
                              IF "TransferCompleteResponse" \in Exports
                              THEN "Response" ELSE "Fault 9000", head.id))
  /\ UNCHANGED <<started, nextInformTimeout, pendingInform, acceptConnections, timers,
                 device, pendingTransfers, workers, nReboots, softwareVersion, history>>
  /\ UNCHANGED <<digestParams, credentials, exited, parameters>>

\* handleMethod(xml) for a request element named getPendingTransfers: handleMethod
\* finds the export of that name and calls it as a method; it shifts the queue
\* and never calls the callback, so nothing is posted
AcsHelperMethod ==
  /\ ~exited
  /\ Awaits("handleMethod")
  /\ requests' = rest
  /\ pendingTransfers' = shifted
  /\ UNCHANGED <<started, nextInformTimeout, pendingInform, acceptConnections, timers,
                 device, workers, nReboots, softwareVersion, history>>
  /\ UNCHANGED <<digestParams, nonceCount, credentials, exited, parameters>>

\* handleMethod(xml) for GetParameterNames, GetParameterValues and
\* SetParameterValues: they read the parameter map or change values in it
AcsParameterMethod(id) ==
  /\ ~exited
  /\ Awaits("handleMethod")
  /\ sendRequest(rest, Reply(head, "handleMethod", NoTransfer, "Response", id))
  /\ UNCHANGED <<started, nextInformTimeout, pendingInform, acceptConnections, timers,
                 device, pendingTransfers, workers, nReboots, softwareVersion, history>>
  /\ UNCHANGED <<digestParams, credentials, exited, parameters>>

\* AddObject
AddObject(objectName, id) ==
  /\ ~exited
  /\ Awaits("handleMethod")
  /\ instanceNumber(parameters, objectName) <= MaxInstances
  /\ parameters' = AddObjectMap(parameters, objectName)
  /\ sendRequest(rest, Reply(head, "handleMethod", NoTransfer, "AddObjectResponse", id))
  /\ UNCHANGED <<started, nextInformTimeout, pendingInform, acceptConnections, timers,
                 device, pendingTransfers, workers, nReboots, softwareVersion, history>>
  /\ UNCHANGED <<digestParams, credentials, exited>>

\* DeleteObject
DeleteObject(objectName, id) ==
  /\ ~exited
  /\ Awaits("handleMethod")
  /\ parameters' = DeleteObjectMap(parameters, objectName)
  /\ sendRequest(rest, Reply(head, "handleMethod", NoTransfer, "DeleteObjectResponse", id))
  /\ UNCHANGED <<started, nextInformTimeout, pendingInform, acceptConnections, timers,
                 device, pendingTransfers, workers, nReboots, softwareVersion, history>>
  /\ UNCHANGED <<digestParams, credentials, exited>>

\* ------------------------------------------------------ timer callbacks
\* the periodic timer armed by handleMethod(null): startSession(null)
PeriodicInform ==
  /\ ~exited
  /\ \E t \in Due("periodic") \cup Due("pending") :
       startSession(t.kind, NULL, requests, Expire(t), softwareVersion)
  /\ UNCHANGED <<started, acceptConnections, pendingReboot, firmwareUpgrade,
                 downloadInProgress, activeDownloadRequest, workers, nReboots, softwareVersion>>
  /\ UNCHANGED <<digestParams, credentials, exited, parameters>>

\* the timer armed by the connection-request listener
ConnectionRequestInform ==
  /\ ~exited
  /\ \E t \in Due("connreq") :
       startSession("connreq", "6 CONNECTION REQUEST", requests, Expire(t), softwareVersion)
  /\ UNCHANGED <<started, acceptConnections, pendingReboot, firmwareUpgrade,
                 downloadInProgress, activeDownloadRequest, workers, nReboots, softwareVersion>>
  /\ UNCHANGED <<digestParams, credentials, exited, parameters>>

\* the timer armed transferCompleteDelayMs after a download's outcome
TransferCompleteInform ==
  /\ ~exited
  /\ \E t \in Due("tc") :
       startSession("tc", "7 TRANSFER COMPLETE", requests, Expire(t), softwareVersion)
  /\ UNCHANGED <<started, acceptConnections, pendingReboot, firmwareUpgrade,
                 downloadInProgress, activeDownloadRequest, workers, nReboots, softwareVersion>>
  /\ UNCHANGED <<digestParams, credentials, exited, parameters>>

\* the timer of stopSession: the stop window ends
Resume ==
  /\ ~exited
  /\ \E t \in Due("resume") : timers' = Expire(t)
  /\ acceptConnections' = TRUE
  /\ UNCHANGED <<started, nextInformTimeout, pendingInform, requests, device,
                 pendingTransfers, workers, nReboots, softwareVersion, history>>
  /\ UNCHANGED <<digestParams, nonceCount, credentials, exited, parameters>>

\* the timer of Reboot, timeout + 10000 after the RPC
RebootInform ==
  /\ ~exited
  /\ \E t \in Due("rebootRpc") :
       startSession("rebootRpc", "1 BOOT,M Reboot,4 VALUE CHANGE", requests, Expire(t), softwareVersion)
  /\ UNCHANGED <<started, acceptConnections, pendingReboot, firmwareUpgrade,
                 downloadInProgress, activeDownloadRequest, workers, nReboots, softwareVersion>>
  /\ UNCHANGED <<digestParams, credentials, exited, parameters>>

\* the end of the stop window of a firmware reboot, then its continuation
FirmwareBootInform ==
  /\ ~exited
  /\ \E t \in Due("bootFw") :
       startSession("bootFw", "1 BOOT,M Download,4 VALUE CHANGE", requests, Expire(t),
                    updateParameter(updateParameter(softwareVersion, "Device", Upgraded),
                                    "InternetGatewayDevice", Upgraded))
  /\ softwareVersion' = updateParameter(updateParameter(softwareVersion, "Device", Upgraded),
                                        "InternetGatewayDevice", Upgraded)
  /\ acceptConnections' = TRUE
  /\ UNCHANGED <<started, pendingReboot, firmwareUpgrade, downloadInProgress,
                 activeDownloadRequest, workers, nReboots>>
  /\ UNCHANGED <<digestParams, credentials, exited, parameters>>

\* the end of the stop window of a plain reboot, then its continuation
BootInform ==
  /\ ~exited
  /\ \E t \in Due("boot") :
       startSession("boot", "1 BOOT,M Reboot", requests, Expire(t), softwareVersion)
  /\ acceptConnections' = TRUE
  /\ UNCHANGED <<started, pendingReboot, firmwareUpgrade, downloadInProgress,
                 activeDownloadRequest, workers, nReboots, softwareVersion>>
  /\ UNCHANGED <<digestParams, credentials, exited, parameters>>

\* time passes: no timer is due
Tick ==
  /\ ~exited
  /\ timers # EmptyBag
  /\ \A t \in BagToSet(timers) : t.rem > 0
  /\ timers' = BagOfAll(Elapse, timers)
  /\ UNCHANGED <<started, nextInformTimeout, pendingInform, acceptConnections, requests,
                 device, pendingTransfers, workers, nReboots, softwareVersion, history>>
  /\ UNCHANGED <<digestParams, nonceCount, credentials, exited, parameters>>

\* ------------------------------------------- connection-request listener
ConnectionRequest ==
  /\ ~exited
  /\ started
  /\ IF ~acceptConnections
     THEN UNCHANGED <<nextInformTimeout, pendingInform, timers>>
     ELSE IF nextInformTimeout = NULL
          THEN /\ pendingInform' = TRUE
               /\ UNCHANGED <<nextInformTimeout, timers>>
          ELSE /\ timers' = setInformTimeout(clearTimeout(timers), "connreq", 0)
               /\ nextInformTimeout' = HANDLE
               /\ UNCHANGED pendingInform
  /\ UNCHANGED <<started, acceptConnections, requests, device, pendingTransfers,
                 workers, nReboots, softwareVersion, history>>
  /\ UNCHANGED <<digestParams, nonceCount, credentials, exited, parameters>>

\* ------------------------------------------------------ Download, Reboot
InFlight(w) == w.state \in {"get", "body"}

\* a download past its last retry: dwInfo.attempts is not read again
settled(w, outcome) == [w EXCEPT !.state = outcome, !.attempts = 0]

Unused == {d \in Downloads : workers[d].state = "none"}

\* the TransferComplete session every outcome but the retry cap schedules
scheduleTransferComplete(b) == setTimeout(b, "tc", transferCompleteDelayMs)

\* Download with a valid FileType; firmware: it is "1 Firmware Upgrade Image",
\* http: the URL starts with http:// or https://
Download(firmware, http, id) ==
  /\ ~exited
  /\ Awaits("handleMethod")
  /\ IF firmware /\ downloadInProgress
     THEN /\ sendRequest(rest, Reply(head, "handleMethod", NoTransfer,
                                           "Fault 9010", id))
          /\ UNCHANGED <<downloadInProgress, activeDownloadRequest, workers,
                         pendingTransfers, timers, history>>
     ELSE /\ Unused # {}
          /\ LET d == CHOOSE x \in Unused : \A y \in Unused : x <= y IN
             IF http
             THEN /\ workers' = [workers EXCEPT ![d] =
                       [state |-> "get", firmware |-> firmware, attempts |-> 0]]
                  /\ downloadInProgress' = (firmware \/ downloadInProgress)
                  /\ activeDownloadRequest' = d
                  /\ UNCHANGED <<pendingTransfers, timers, history>>
             ELSE /\ workers' = [workers EXCEPT ![d] =
                       [state |-> "failed", firmware |-> firmware, attempts |-> 0]]
                  /\ downloadInProgress' = IF firmware THEN FALSE ELSE downloadInProgress
                  /\ pendingTransfers' = queueTransferComplete(
                       pendingTransfers, d, "9016", "Invalid URL scheme", d)
                  /\ timers' = scheduleTransferComplete(timers)
                  /\ history' = Queued(history, d)
                  /\ UNCHANGED activeDownloadRequest
          /\ sendRequest(rest, Reply(head, "handleMethod", NoTransfer,
                                           "DownloadResponse", id))
  /\ UNCHANGED <<started, nextInformTimeout, pendingInform, acceptConnections,
                 pendingReboot, firmwareUpgrade, transferCompleteSession, nReboots, softwareVersion>>
  /\ UNCHANGED <<digestParams, credentials, exited, parameters>>

\* request.destroy(): before the response it ends in an 'error' event
\* (socket hang up), once the response is being read it ends silently
destroy(w) ==
  IF w.state = "get" THEN [w EXCEPT !.state = "destroyed", !.attempts = 0]
  ELSE IF w.state = "body" THEN settled(w, "failed")
  ELSE w

\* the download holding the firmware mutex, 0 if there is none
FirmwareInFlight ==
  LET fw == {d \in Downloads : workers[d].firmware /\ InFlight(workers[d])}
  IN  IF fw = {} THEN 0 ELSE CHOOSE x \in fw : \A y \in fw : x <= y

Reboot(id) ==
  /\ ~exited
  /\ Awaits("handleMethod")
  /\ nReboots < MaxReboots
  /\ nReboots' = nReboots + 1
  /\ IF activeDownloadRequest # 0
     THEN /\ workers' = [workers EXCEPT ![activeDownloadRequest] = destroy(@)]
          /\ activeDownloadRequest' = 0
          /\ IF downloadInProgress
             THEN /\ downloadInProgress' = FALSE
                  /\ pendingTransfers' = queueTransferComplete(
                       pendingTransfers, CancelKey, "9010", "Download failure", FirmwareInFlight)
                  /\ history' = Queued(history, FirmwareInFlight)
             ELSE UNCHANGED <<downloadInProgress, pendingTransfers, history>>
     ELSE UNCHANGED <<workers, activeDownloadRequest, downloadInProgress,
                      pendingTransfers, history>>
  /\ sendRequest(rest, Reply(head, "handleMethod", NoTransfer,
                                   "RebootResponse", id))
  /\ acceptConnections' = FALSE
  /\ timers' = setTimeout(setTimeout(timers, "resume", timeout),
                          "rebootRpc", timeout + rebootExtraDelay)
  /\ UNCHANGED <<started, nextInformTimeout, pendingInform, pendingReboot,
                 firmwareUpgrade, transferCompleteSession, softwareVersion>>
  /\ UNCHANGED <<digestParams, credentials, exited, parameters>>

\* -------------------------------------------------------- download worker
\* downloadFile called again after a 401 with a Basic or Digest challenge
Challenged(d) ==
  /\ ~exited
  /\ workers[d].state = "get"
  /\ IF workers[d].attempts + 1 > maxAttempts
     THEN /\ workers' = [workers EXCEPT ![d] = settled(@, "failed")]
          /\ pendingTransfers' = queueTransferComplete(
               pendingTransfers, d, "9010", "Too many attempts", d)
          /\ history' = Queued(history, d)
          /\ UNCHANGED activeDownloadRequest
     ELSE /\ workers' = [workers EXCEPT ![d].attempts = @ + 1]
          /\ activeDownloadRequest' = d
          /\ UNCHANGED <<pendingTransfers, history>>
  /\ UNCHANGED <<started, nextInformTimeout, pendingInform, acceptConnections, timers,
                 requests, pendingReboot, firmwareUpgrade, transferCompleteSession,
                 downloadInProgress, nReboots, softwareVersion>>
  /\ UNCHANGED <<digestParams, nonceCount, credentials, exited, parameters>>

\* a status other than 200 (a 401 without usable challenge included)
Refused(d) ==
  /\ ~exited
  /\ workers[d].state = "get"
  /\ workers' = [workers EXCEPT ![d] = settled(@, "failed")]
  /\ pendingTransfers' = queueTransferComplete(
       pendingTransfers, d, "9010", "Server returned code", d)
  /\ history' = Queued(history, d)
  /\ timers' = scheduleTransferComplete(timers)
  /\ UNCHANGED <<started, nextInformTimeout, pendingInform, acceptConnections,
                 requests, device, nReboots, softwareVersion>>
  /\ UNCHANGED <<digestParams, nonceCount, credentials, exited, parameters>>

\* status 200: the body is being read
Accepted(d) ==
  /\ ~exited
  /\ workers[d].state = "get"
  /\ workers' = [workers EXCEPT ![d] = settled(@, "body")]
  /\ UNCHANGED <<started, nextInformTimeout, pendingInform, acceptConnections, timers,
                 requests, device, pendingTransfers, nReboots, softwareVersion, history>>
  /\ UNCHANGED <<digestParams, nonceCount, credentials, exited, parameters>>

\* res.on("end")
Downloaded(d) ==
  /\ ~exited
  /\ workers[d].state = "body"
  /\ workers' = [workers EXCEPT ![d] = settled(@, "ok")]
  /\ downloadInProgress' = IF workers[d].firmware THEN FALSE ELSE downloadInProgress
  /\ activeDownloadRequest' = 0
  /\ pendingTransfers' = queueTransferComplete(pendingTransfers, d, "0", "", d)
  /\ history' = Queued(history, d)
  /\ pendingReboot' = (workers[d].firmware \/ pendingReboot)
  /\ firmwareUpgrade' = (workers[d].firmware \/ firmwareUpgrade)
  /\ timers' = scheduleTransferComplete(timers)
  /\ requests' = [i \in DOMAIN requests |->
                    [requests[i] EXCEPT !.during = @ \cup {d}]]
  /\ UNCHANGED <<started, nextInformTimeout, pendingInform, acceptConnections,
                 transferCompleteSession, nReboots, softwareVersion>>
  /\ UNCHANGED <<digestParams, nonceCount, credentials, exited, parameters>>

\* on("error"): a socket error, or the request was destroyed before its response
Errored(d) ==
  /\ ~exited
  /\ workers[d].state \in {"get", "destroyed"}
  /\ workers' = [workers EXCEPT ![d] = settled(@, "failed")]
  /\ downloadInProgress' = IF workers[d].firmware THEN FALSE ELSE downloadInProgress
  /\ activeDownloadRequest' = 0
  /\ pendingTransfers' = queueTransferComplete(pendingTransfers, d, "9010", "error", d)
  /\ history' = Queued(history, d)
  /\ timers' = scheduleTransferComplete(timers)
  /\ UNCHANGED <<started, nextInformTimeout, pendingInform, acceptConnections,
                 requests, pendingReboot, firmwareUpgrade, transferCompleteSession,
                 nReboots, softwareVersion>>
  /\ UNCHANGED <<digestParams, nonceCount, credentials, exited, parameters>>

\* request.setTimeout(downloadTimeoutMs, ...)
TimedOut(d) ==
  /\ ~exited
  /\ InFlight(workers[d])
  /\ workers' = [workers EXCEPT ![d] = destroy(@)]
  /\ downloadInProgress' = IF workers[d].firmware THEN FALSE ELSE downloadInProgress
  /\ activeDownloadRequest' = 0
  /\ pendingTransfers' = queueTransferComplete(
       pendingTransfers, d, "9010", "Download timeout", d)
  /\ history' = Queued(history, d)
  /\ timers' = scheduleTransferComplete(timers)
  /\ UNCHANGED <<started, nextInformTimeout, pendingInform, acceptConnections,
                 requests, pendingReboot, firmwareUpgrade, transferCompleteSession,
                 nReboots, softwareVersion>>
  /\ UNCHANGED <<digestParams, nonceCount, credentials, exited, parameters>>

\* the response handler of sendRequest on status 401 with a Digest challenge:
\* the challenge is cached, the nonce count reset, the same request sent again
Unauthorized(qop) ==
  LET params == [nonce |-> digestParams.nonce + 1, qop |-> qop] IN
  /\ ~exited
  /\ started
  /\ requests # <<>>
  /\ digestParams.nonce < MaxChallenges
  /\ digestParams' = params
  /\ nonceCount' = Counted(params, 0)
  /\ requests' = Append(rest, getAuthorizationHeader(head, params, 0))
  /\ UNCHANGED <<started, nextInformTimeout, pendingInform, acceptConnections, timers,
                 device, pendingTransfers, workers, nReboots, softwareVersion,
                 credentials, exited, parameters, history>>

\* the throw statements of sendRequest, inside the 'end' handler of a response
\* (kind "401": a 401 without Digest challenge, "status": another status that
\* is not 2xx) or inside the socket-timeout handler (kind "timeout").  Nothing
\* under src catches them: the process ends, unless the program that loaded
\* the module keeps it alive (survives), and then the response is consumed
\* while its callback never runs
Fatal(kind, survives) ==
  /\ ~exited
  /\ started
  /\ requests # <<>>
  /\ IF survives
     THEN /\ kind # "timeout"
          /\ requests' = rest
          /\ UNCHANGED exited
     ELSE /\ exited' = TRUE
          /\ UNCHANGED requests
  /\ UNCHANGED <<started, nextInformTimeout, pendingInform, acceptConnections, timers,
                 device, pendingTransfers, workers, nReboots, softwareVersion,
                 digestParams, nonceCount, credentials, parameters, history>>

Next ==
  \/ start
  \/ InformAnsweredEmpty
  \/ InformAnswered
  \/ FaultAnswered
  \/ AcsEmpty
  \/ TransferCompleteResponse
  \/ \E id \in Ids : AcsUnknownMethod(id)
  \/ \E id \in Ids : AcsParameterMethod(id)
  \/ \E firmware \in BOOLEAN, http \in BOOLEAN, id \in Ids : Download(firmware, http, id)
  \/ \E id \in Ids : Reboot(id)
  \/ PeriodicInform
  \/ ConnectionRequestInform
  \/ TransferCompleteInform
  \/ Resume
  \/ RebootInform
  \/ FirmwareBootInform
  \/ BootInform
  \/ Tick
  \/ ConnectionRequest
  \/ \E d \in Downloads : Challenged(d)
  \/ \E d \in Downloads : Refused(d)
  \/ \E d \in Downloads : Accepted(d)
  \/ \E d \in Downloads : Downloaded(d)
  \/ \E d \in Downloads : Errored(d)
  \/ \E d \in Downloads : TimedOut(d)

Spec == Init /\ [][Next]_vars

\* the same with an ACS that also sends request elements named after the
\* exports of methods.js that are no CWMP methods
NextAnyName == Next \/ AcsHelperMethod

AnyNameSpec == Init /\ [][NextAnyName]_vars

\* the first session and the transfers it starts, as far as they get before
\* any timer expires
BurstInit ==
  /\ parameters = NoObjects
  /\ Loaded(MaxBurstDownloads)
  /\ softwareVersion = [r \in Roots |-> Shipped]
  /\ credentials = TRUE

BurstNext ==
  \/ start
  \/ InformAnswered
  \/ AcsEmpty
  \/ \E firmware \in BOOLEAN, http \in BOOLEAN, id \in Ids : Download(firmware, http, id)
  \/ \E id \in Ids : Reboot(id)
  \/ \E d \in Downloads : Refused(d)
  \/ \E d \in Downloads : Accepted(d)
  \/ \E d \in Downloads : Downloaded(d)
  \/ \E d \in Downloads : Errored(d)

BurstSpec == BurstInit /\ [][BurstNext]_vars

\* an ACS that protects its endpoint with digest authentication, and the
\* sessions of a device whose downloads fail at once
DigestNext ==
  \/ start
  \/ \E qop \in BOOLEAN : Unauthorized(qop)
  \/ InformAnsweredEmpty
  \/ InformAnswered
  \/ AcsEmpty
  \/ \E id \in Ids : AcsParameterMethod(id)
  \/ \E id \in Ids : Download(FALSE, FALSE, id)
  \/ PeriodicInform
  \/ TransferCompleteInform
  \/ Tick

\* the data model may hold an empty ManagementServer.Username or Password
DigestInit ==
  /\ parameters = NoObjects
  /\ Loaded(MaxDownloads)
  /\ softwareVersion = [r \in Roots |-> Shipped]
  /\ credentials \in BOOLEAN

DigestSpec == DigestInit /\ [][DigestNext]_vars

\* an ACS or a network that fails: the sessions of a device and what is left
\* of them after a throw
FatalNext ==
  \/ start
  \/ \E kind \in {"401", "status", "timeout"}, survives \in BOOLEAN : Fatal(kind, survives)
  \/ InformAnsweredEmpty
  \/ InformAnswered
  \/ AcsEmpty
  \/ \E id \in Ids : AcsParameterMethod(id)
  \/ \E id \in Ids : Download(FALSE, FALSE, id)
  \/ PeriodicInform
  \/ ConnectionRequestInform
  \/ TransferCompleteInform
  \/ Tick
  \/ ConnectionRequest

FatalSpec == Init /\ [][FatalNext]_vars

\* the first session of a device started on any of the data models, with an
\* ACS that adds and deletes objects
ObjectInit ==
  /\ parameters \in ParameterMaps
  /\ Loaded(MaxDownloads)
  /\ softwareVersion = [r \in Roots |-> Shipped]
  /\ credentials = TRUE

\* the paths the ACS names in DeleteObject
DeletePaths == {ObjectPath} \cup {ObjectPath \o String(i) \o <<".">> : i \in 1..MaxInstances}

ObjectNext ==
  \/ start
  \/ InformAnswered
  \/ \E id \in Ids : AddObject(ObjectPath, id)
  \/ \E objectName \in DeletePaths, id \in Ids : DeleteObject(objectName, id)
  \/ AcsEmpty

ObjectSpec == ObjectInit /\ [][ObjectNext]_vars

\* the program started on any data model
AnyModelSpec == AnyModelInit /\ [][Next]_vars

\* the ACS answers the oldest POST
Answer ==
  \/ InformAnsweredEmpty
  \/ InformAnswered
  \/ FaultAnswered
  \/ AcsEmpty
  \/ TransferCompleteResponse
  \/ \E id \in Ids : AcsUnknownMethod(id)
  \/ \E id \in Ids : AcsParameterMethod(id)
  \/ \E firmware \in BOOLEAN, http \in BOOLEAN, id \in Ids : Download(firmware, http, id)
  \/ \E id \in Ids : Reboot(id)

\* a due timer fires
Fire ==
  \/ PeriodicInform
  \/ ConnectionRequestInform
  \/ TransferCompleteInform
  \/ Resume
  \/ RebootInform
  \/ FirmwareBootInform
  \/ BootInform

\* Node runs due timers and time passes; the ACS answers every POST
FairSpec == Spec /\ WF_vars(Tick) /\ WF_vars(Fire) /\ WF_vars(Answer)

\* --------------------------------------------------------------- claims
\* a step that starts a session, and that session's Inform
SessionStarts == Len(requests') > Len(requests)
Started == requests'[Len(requests')]

Settled(d) == workers[d].state \in {"ok", "failed"}

\* C1: at most one POST issued by sendRequest is unanswered at any time.
C1_OneRequestInFlight == Len(requests) <= 1

\* C2: once started, nextInformTimeout is null exactly while a session is active.
C2_NullIffSessionActive ==
  started => ((nextInformTimeout = NULL) <=> (requests # <<>>))

\* C3 (as claimed): a successful download's TransferComplete is sent once at most,
\* and in a session that started after the download finished.
C3_InSubsequentSession ==
  /\ \A d \in Downloads : history[d].sentOk <= 1
  /\ \A i \in DOMAIN requests :
       IsSuccess(requests[i].tc) => requests[i].tc.commandKey \notin requests[i].during

\* C3, with an ACS that answers every POST and sends CWMP names only, and
\* without a throw: the TransferComplete without FaultStruct that carries a
\* download's CommandKey is sent only once the download has succeeded, at most
\* once, by the Inform of a session that starts afterwards or by the cpeRequest
\* step of a session whose Inform was already sent; and it is eventually sent.
C3_ExactlyOnce ==
  /\ [](\A d \in Downloads :
          /\ history[d].sentOk <= 1
          /\ history[d].sentOk = 1 => workers[d].state = "ok")
  /\ [](\A i \in DOMAIN requests :
          (IsSuccess(requests[i].tc) /\ requests[i].tc.commandKey \in requests[i].during)
            => requests[i].cont = "handleMethod")
  /\ \A d \in 1..MaxDownloads :
       (workers[d].state = "ok") ~> (history[d].sentOk = 1)

\* C3 witness: a download succeeded during a session, and that session's
\* cpeRequest step sent its TransferComplete
C3_Witness ==
  \E i \in DOMAIN requests :
    /\ IsSuccess(requests[i].tc)
    /\ requests[i].tc.commandKey \in requests[i].during
    /\ history[requests[i].tc.commandKey].sentOk = 1

\* C4: a queued record is sent at most once, a download yields at most one
\* record, and a record is sent only after its download reached its outcome.
C4_OneRecordPerDownload ==
  /\ \A d \in Downloads : history[d].queued <= 1 /\ history[d].sent <= history[d].queued
  /\ \A i \in DOMAIN requests :
       requests[i].tc.of \in Downloads => Settled(requests[i].tc.of)

\* the device starts a reboot of its own: handleMethod(null) calls stopSession
BootTimers(b) ==
  BagCardinality([t \in {x \in BagToSet(b) : x.kind \in {"boot", "bootFw"}} |-> b[t]])
RebootInitiated == acceptConnections' = FALSE /\ BootTimers(timers') > BootTimers(timers)

\* C5: once a firmware download has succeeded, the device starts no reboot
\* before the session that sent its TransferComplete has closed.
C5_NoRebootBeforeDelivery ==
  [][RebootInitiated =>
       \A d \in Downloads :
         (workers[d].firmware /\ workers[d].state = "ok") =>
           /\ history[d].sentOk > 0
           /\ \A i \in DOMAIN requests' : d \notin requests'[i].sentFor]_vars

\* a firmware download's TransferComplete is out and its reboot continuation
\* has not started
AwaitingFirmwareBoot ==
  \E d \in Downloads :
    workers[d].firmware /\ history[d].sentOk > 0 /\ ~history[d].rebooted

\* C6: after a firmware download's TransferComplete was sent, the next session
\* to start is the continuation "1 BOOT,M Download,4 VALUE CHANGE".
C6_BootFollowsTransferComplete ==
  [][(AwaitingFirmwareBoot /\ SessionStarts) =>
       Started.event = "1 BOOT,M Download,4 VALUE CHANGE"]_vars

\* C7: a reboot continuation session starts with acceptConnections true.
C7_BootWhileAccepting ==
  [][(SessionStarts /\ Started.src \in {"rebootRpc", "bootFw", "boot"}) =>
       acceptConnections']_vars

\* C8: the periodic timer starts a session only when no session is active.
C8_PeriodicNeverOverlaps ==
  [][(SessionStarts /\ Started.src \in {"periodic", "pending"}) =>
       requests = <<>>]_vars

\* C9: a connection request in a stop window changes nothing; one that comes
\* while connections are accepted and no session is active cancels the
\* periodic timer and arms the only "6 CONNECTION REQUEST" session.
C9_ConnectionRequestStartsSession ==
  [][ConnectionRequest =>
       /\ ~acceptConnections => UNCHANGED <<pendingInform, nextInformTimeout, timers, requests>>
       /\ (acceptConnections /\ requests = <<>>) =>
            /\ nextInformTimeout' = HANDLE
            /\ {t \in BagToSet(timers') : t.ref} = {Timer("connreq", 0, TRUE)}
            /\ CopiesIn(Timer("connreq", 0, TRUE), timers') = 1]_vars

\* C10: the session that a close starts at once because connection requests
\* came during the session carries the event "6 CONNECTION REQUEST".
C10_PendingInformEvent ==
  \A i \in DOMAIN requests :
    requests[i].src = "pending" => requests[i].event = "6 CONNECTION REQUEST"

\* the POST the step's handler hands to sendRequest
Posted == requests'[Len(requests')]

\* C11: cpeRequest, given an envelope while acceptConnections is false, replies
\* with fault 9002, whose callback destroys the agent, and dequeues no
\* transfer record.
C11_NotReadyBeforeTransferComplete ==
  [][(InformAnswered /\ ~acceptConnections) =>
       /\ Posted.body = "Fault 9002"
       /\ Posted.cont = "destroy"
       /\ pendingTransfers' = pendingTransfers]_vars

\* the ACS sends a request element that names none of Methods
AcsUnsupported == AcsHelperMethod \/ \E id \in Ids : AcsUnknownMethod(id)

\* C12: a request element that names no supported method is answered with
\* fault 9000 under the request's id, no transfer record is touched, and the
\* next ACS response goes to handleMethod.
C12_UnsupportedGetsFault9000 ==
  [][AcsUnsupported =>
       /\ Len(requests') = Len(requests)
       /\ Posted.body = "Fault 9000"
       /\ Posted.id \in Ids
       /\ Posted.cont = "handleMethod"
       /\ pendingTransfers' = pendingTransfers]_vars

\* handleMethod(null) finds pendingReboot, firmwareUpgrade and
\* transferCompleteSession set
FirmwareClose ==
  /\ AcsEmpty \/ (InformAnsweredEmpty /\ acceptConnections)
  /\ pendingReboot /\ firmwareUpgrade /\ transferCompleteSession

\* the continuation such a close arms has not fired yet
ContinuationArmed == \E t \in BagToSet(timers) : t.kind = "bootFw"

InformTimers(b) == {t \in BagToSet(b) : t.kind \in {"periodic", "pending"}}

\* C13: a close that finds the three flags set clears them, enters a stop
\* window and schedules no periodic inform; the next session to start is
\* "1 BOOT,M Download,4 VALUE CHANGE", and its Inform reports SoftwareVersion
\* 2.0.0-upgraded under every root that has the parameter.
C13_FirmwareRebootOnClose ==
  [][/\ FirmwareClose =>
          /\ ~pendingReboot' /\ ~firmwareUpgrade' /\ ~transferCompleteSession'
          /\ ~acceptConnections'
          /\ ContinuationArmed'
          /\ nextInformTimeout' = nextInformTimeout
          /\ InformTimers(timers') = InformTimers(timers)
     /\ (ContinuationArmed /\ SessionStarts) =>
          /\ Started.event = "1 BOOT,M Download,4 VALUE CHANGE"
          /\ DOMAIN Started.version = {r \in Roots : softwareVersion[r] # Absent}
          /\ \A r \in DOMAIN Started.version : Started.version[r] = Upgraded]_vars

\* the ACS answers with an empty body and no reboot is pending
EmptyClose == (AcsEmpty \/ InformAnsweredEmpty) /\ ~pendingReboot

\* the timers whose handle nextInformTimeout holds
Held(b) == {t \in BagToSet(b) : t.ref}

\* C14: a close on an empty body with no reboot pending schedules exactly one
\* session: startSession(null) after PeriodicInformInterval, or at once when
\* pendingInform is set.
C14_CloseSchedulesOneInform ==
  [][EmptyClose =>
       /\ nextInformTimeout' = HANDLE
       /\ Held(timers') = {IF pendingInform THEN Timer("pending", 0, TRUE)
                                            ELSE Timer("periodic", informInterval, TRUE)}
       /\ BagCardinality(timers') = BagCardinality(timers) + 1]_vars

\* the firmware downloads whose GET is in flight
FirmwareWorkers == {d \in Downloads : workers[d].firmware /\ InFlight(workers[d])}

\* C15: a firmware Download received while downloadInProgress is true gets
\* fault 9010, starts no worker and queues no record; at most one firmware
\* download is in flight at any time.
C15_OneFirmwareDownload ==
  [][/\ \A http \in BOOLEAN, id \in Ids :
          (Download(TRUE, http, id) /\ downloadInProgress) =>
             /\ Posted.body = "Fault 9010"
             /\ workers' = workers
             /\ pendingTransfers' = pendingTransfers
     /\ Cardinality(FirmwareWorkers') <= 1]_vars

\* the worker of download d reaches a terminal outcome
Outcome(d) ==
  \/ Refused(d)
  \/ Downloaded(d)
  \/ Errored(d)
  \/ TimedOut(d)
  \/ Challenged(d) /\ workers'[d].state = "failed"

TransferCompleteTimer == Timer("tc", transferCompleteDelayMs, FALSE)

\* C16: every terminal outcome of a download worker queues a transfer record
\* for it and arms a "7 TRANSFER COMPLETE" session transferCompleteDelayMs
\* later.
C16_OutcomeSchedulesSession ==
  [][\A d \in Downloads :
       Outcome(d) =>
         /\ Len(pendingTransfers') = Len(pendingTransfers) + 1
         /\ pendingTransfers'[Len(pendingTransfers')].commandKey = d
         /\ CopiesIn(TransferCompleteTimer, timers')
              = CopiesIn(TransferCompleteTimer, timers) + 1]_vars

\* a Download whose URL has another scheme than http or https passes the
\* firmware test
InvalidSchemeDownload(firmware) ==
  /\ ~(firmware /\ downloadInProgress)
  /\ \E id \in Ids : Download(firmware, FALSE, id)

\* C17: a Download with a valid FileType and a URL that is neither http nor
\* https gets DownloadResponse, starts no GET, queues one record 9016
\* "Invalid URL scheme" and arms a TransferComplete session; a firmware
\* Download leaves downloadInProgress false; the Inform that carries the
\* record is that of a "7 TRANSFER COMPLETE" session.
C17_InvalidScheme ==
  [][/\ \A firmware \in BOOLEAN :
          InvalidSchemeDownload(firmware) =>
            /\ Posted.body = "DownloadResponse"
            /\ \A d \in Downloads : workers'[d].state = "get" => workers[d].state = "get"
            /\ activeDownloadRequest' = activeDownloadRequest
            /\ Len(pendingTransfers') = Len(pendingTransfers) + 1
            /\ pendingTransfers'[Len(pendingTransfers')].faultCode = "9016"
            /\ pendingTransfers'[Len(pendingTransfers')].faultString = "Invalid URL scheme"
            /\ CopiesIn(TransferCompleteTimer, timers')
                 = CopiesIn(TransferCompleteTimer, timers) + 1
            /\ firmware => ~downloadInProgress'
     /\ (SessionStarts /\ Started.tc.faultCode = "9016") =>
          Started.event = "7 TRANSFER COMPLETE"]_vars

\* C18: a worker that is challenged on every GET retries at most 5 times; the
\* challenge that follows the fifth retry ends it with the record 9010 "Too
\* many attempts".
C18_RetryCap ==
  [][\A d \in Downloads :
       /\ workers'[d].attempts <= 5
       /\ (Challenged(d) /\ workers[d].attempts < 5) =>
            /\ workers'[d].state = "get"
            /\ workers'[d].attempts = workers[d].attempts + 1
            /\ pendingTransfers' = pendingTransfers
       /\ (Challenged(d) /\ workers[d].attempts = 5) =>
            /\ workers'[d].state = "failed"
            /\ pendingTransfers' = Append(pendingTransfers,
                 [commandKey |-> d, faultCode |-> "9010",
                  faultString |-> "Too many attempts", of |-> d])]_vars

\* C18 witness: a worker was challenged after its fifth retry and its record
\* is queued
C18_Witness ==
  \E d \in Downloads, i \in DOMAIN pendingTransfers :
    /\ workers[d].state = "failed"
    /\ pendingTransfers[i].commandKey = d
    /\ pendingTransfers[i].faultString = "Too many attempts"

\* the record Reboot queues for the download it cancelled
CancelRecord ==
  [commandKey |-> CancelKey, faultCode |-> "9010", faultString |-> "Download failure"]

IsCancelRecord(rec) ==
  [commandKey |-> rec.commandKey, faultCode |-> rec.faultCode,
   faultString |-> rec.faultString] = CancelRecord

\* the cancel record is queued and the continuation of Reboot has not fired
CancelledAndRebooting ==
  /\ \E i \in DOMAIN pendingTransfers : IsCancelRecord(pendingTransfers[i])
  /\ \E t \in BagToSet(timers) : t.kind = "rebootRpc"

\* C19: Reboot during a firmware download answers RebootResponse, destroys the
\* GET, queues the record 9010 "Download failure" and enters a stop window;
\* the next session to start is "1 BOOT,M Reboot,4 VALUE CHANGE", timeout +
\* 10 s later, and its Inform carries that record.
C19_RebootCancelsDownload ==
  [][/\ ((\E id \in Ids : Reboot(id)) /\ FirmwareWorkers # {}) =>
          /\ Posted.body = "RebootResponse"
          /\ FirmwareWorkers' = {}
          /\ Len(pendingTransfers') = Len(pendingTransfers) + 1
          /\ IsCancelRecord(pendingTransfers'[Len(pendingTransfers')])
          /\ ~acceptConnections'
          /\ CopiesIn(Timer("rebootRpc", timeout + rebootExtraDelay, FALSE), timers') = 1
     /\ (CancelledAndRebooting /\ SessionStarts) =>
          /\ Started.event = "1 BOOT,M Reboot,4 VALUE CHANGE"
          /\ IsCancelRecord(Started.tc)]_vars
\* the ACS accepts the oldest POST, which carries a nonce count, while the
\* POST the agent sends next is already queued
AcceptsDigestRequest ==
  /\ Len(requests) >= 2
  /\ head.nc > 0
  /\ requests[2].nc > 0
  /\ \A qop \in BOOLEAN : ~Unauthorized(qop)
  /\ requests' # requests

\* C20: no Digest 401 lies between two requests the ACS receives one after
\* the other when it accepts the first: the second carries the higher
\* nonce count
C20_NonceCountIncreases ==
  [][AcceptsDigestRequest => requests[2].nc > head.nc]_vars

\* a step of the 401 handler that retransmits
Retransmits == \E qop \in BOOLEAN : Unauthorized(qop)

\* C21: a POST answered 401 with a Digest challenge is sent again with the
\* identical body and a Digest Authorization header whose nc is 00000001, the
\* challenge stored and the nonce count restarted; a 401 without Digest
\* challenge is fatal and nothing is sent again.
C21_DigestRetry ==
  [][/\ Retransmits =>
          /\ digestParams' # NoChallenge
          /\ Len(requests') = Len(requests)
          /\ Posted.body = head.body
          /\ Posted.id = head.id
          /\ Posted.event = head.event
          /\ Posted.tc = head.tc
          /\ Posted.authorization =
               [scheme |-> "Digest", nc |-> <<"0", "0", "0", "0", "0", "0", "0", "1">>]
     /\ (\E survives \in BOOLEAN : Fatal("401", survives)) =>
          Len(requests') <= Len(requests) /\ UNCHANGED <<digestParams, nonceCount>>]_vars

\* a throw of sendRequest
FatalError ==
  \E kind \in {"401", "status", "timeout"}, survives \in BOOLEAN : Fatal(kind, survives)

\* the timers whose callback starts a session
SessionTimers(b) == {t \in BagToSet(b) : t.kind # "resume"}

\* C22: after a fatal failure of an ACS request nothing of the session is
\* sent again, and the process runs on with a timer armed that will start a
\* new session.
C22_NextInformAfterFatal ==
  [][FatalError =>
       /\ Len(requests') <= Len(requests)
       /\ ~exited'
       /\ SessionTimers(timers') # {}]_vars

\* the nc field of RFC 2617: eight hexadecimal digits
Hex8(n) == padStart(toString(n, 16), 8, "0")

\* C23: the nc field of a Digest Authorization header is the nonce count in
\* hexadecimal, zero-padded to eight digits.
C23_NcIsHex ==
  \A i \in DOMAIN requests :
    requests[i].authorization.nc # <<>> =>
      requests[i].authorization.nc = Hex8(requests[i].nc)

\* a step that takes a record off the queue of pending transfers
Dequeues == pendingTransfers # <<>> /\ Len(pendingTransfers') < Len(pendingTransfers)

\* C24: the queue of pending transfers is consumed in FIFO order, and a
\* session takes at most one record off it: its cpeRequest phase takes none
\* when its Inform took one.
C24_OneRecordPerSession ==
  [][Dequeues =>
       /\ pendingTransfers' = Tail(pendingTransfers)
       /\ Posted.tc = Head(pendingTransfers)
       /\ InformAnswered => head.tc = NoTransfer]_vars

\* an AddObject on ObjectPath, and the instance it creates
AddsObject == \E id \in Ids : AddObject(ObjectPath, id)
Instance == ObjectPath \o String(instanceNumber(parameters, ObjectPath)) \o <<".">>

\* the template leaves P.<name> of the map: <name> holds no dot
TemplateLeaves ==
  {k \in DOMAIN parameters :
     /\ startsWith(k, ObjectPath)
     /\ Len(k) > Len(ObjectPath)
     /\ indexOf(k, ".", Len(ObjectPath)) = -1}

\* C25: AddObject on P. creates P.i. for the smallest positive i that does
\* not exist, creates P.i.<name> for every template leaf P.<name> with the
\* leaf's writable flag and type and the type's default value, and changes no
\* key that existed before.
C25_AddObject ==
  [][AddsObject =>
       /\ Instance \notin DOMAIN parameters
       /\ Instance \in DOMAIN parameters'
       /\ \A k \in TemplateLeaves :
            LET created == Instance \o slice(k, Len(ObjectPath)) IN
            /\ created \in DOMAIN parameters'
            /\ created \notin DOMAIN parameters =>
                 parameters'[created] = Entry(parameters[k].writable,
                                              defaultValues(parameters[k].type),
                                              parameters[k].type)
       /\ \A k \in DOMAIN parameters : parameters'[k] = parameters[k]]_vars

\* C26: DeleteObject on the instance an AddObject created gives back the key
\* set the map had before the AddObject, and DeleteObject removes every key
\* that starts with the requested path.
C26_AddThenDelete ==
  [][/\ AddsObject =>
          DOMAIN DeleteObjectMap(parameters', Instance) = DOMAIN parameters
     /\ \A objectName \in DeletePaths :
          (\E id \in Ids : DeleteObject(objectName, id)) =>
            \A k \in DOMAIN parameters :
              startsWith(k, objectName) => k \notin DOMAIN parameters']_vars

\* the armed timers whose callback is startSession(null)
PeriodicTimers(b) ==
  BagCardinality([t \in {x \in BagToSet(b) : x.kind \in {"periodic", "pending"}} |-> b[t]])

\* C27: at most one periodic timer is armed at any time, and the one armed is
\* the one whose handle nextInformTimeout holds: a session started by another
\* route leaves none behind.
C27_OnePeriodicTimer ==
  /\ PeriodicTimers(timers) <= 1
  /\ \A t \in InformTimers(timers) : t.ref

\* the firmware downloads whose GET has not come to its last event
FirmwareUnsettled ==
  {d \in Downloads : workers[d].firmware /\ workers[d].state \in {"get", "body", "destroyed"}}

\* C28: downloadInProgress is false whenever no firmware download is in
\* flight.
C28_FlagReleased == FirmwareUnsettled = {} => ~downloadInProgress

\* C29: the device answers no TransferCompleteResponse with fault 9000.
C29_NoFaultOnResponse ==
  [][TransferCompleteResponse => Posted.body # "Fault 9000"]_vars

\* no session is open, no timer will start one and no download will arm one
Idle ==
  /\ started
  /\ requests = <<>>
  /\ SessionTimers(timers) = {}
  /\ \A d \in Downloads : workers[d].state \notin {"get", "body", "destroyed"}

\* C30: the simulator never becomes idle for good: while no session is open,
\* a timer is pending that will start one, or a download is in flight whose
\* outcome arms one.
C30_NeverIdle == ~Idle

\* a Reboot handled while a firmware and a non-firmware download are in flight
RebootsOverBoth ==
  /\ \E id \in Ids : Reboot(id)
  /\ FirmwareWorkers # {}
  /\ \E d \in Downloads : InFlight(workers[d]) /\ ~workers[d].firmware

\* C31: such a Reboot leaves no download in flight, and it queues the record
\* "Download failure" and releases downloadInProgress only when the request
\* it destroyed is the one of the firmware download.
C31_RebootCancelsTheMutexHolder ==
  [][RebootsOverBoth =>
       /\ \A d \in Downloads : ~InFlight(workers'[d])
       /\ (downloadInProgress' # downloadInProgress \/ pendingTransfers' # pendingTransfers)
            => activeDownloadRequest \in FirmwareWorkers]_vars

====
